---- MODULE Spec2Model ----
(***************************************************************************)
(* Soulstick: the cursor-trail particle pool (EmberCursor), the WebGL      *)
(* background render loop (WebGLAtmosphere), the scroll publisher          *)
(* (ScrollSync) and the application glue (SoulstickApp) as state machines. *)
(* Every browser callback (an event handler, an animation-frame callback,  *)
(* a timer) runs to completion, so each is one action.                     *)
(***************************************************************************)
EXTENDS Integers, Naturals, Sequences, FiniteSets, TLC

VARIABLES
    \* ---- EmberCursor (src/scripts/ember-cursor.js) ----
    cursorEl,        \* document has #ember-cursor (this.cursor is non-null)
    cursorClass,     \* the cursor element carries the class 'active'
    cursorTransform, \* position/scale last written by renderCursor
    mouse,           \* this.mouse
    lastMouse,       \* this.lastMouse
    isActive,        \* this.isActive
    pool,            \* this.pool, a sequence of slots (slot i of the code is pool[i+1])
    poolIndex,       \* this.poolIndex
    rafId,           \* this.rafId, a frame-request id (0 stands for null)
    cursorRaf,       \* id of the pending request for the animate callback (0: none)
    cursorScale,     \* this.cursorScale, in hundredths
    bodyCursor,      \* document.body.style.cursor
    cListeners,      \* document listeners registered by EmberCursor.bindEvents
    maxTrailLength,  \* this.maxTrailLength (0 stands for undefined)
    cDestroyed,      \* history: EmberCursor.destroy() has returned
    \* ---- WebGLAtmosphere (src/scripts/webgl-atmosphere.js) ----
    isSupported,     \* this.isSupported
    canvasPresent,   \* document has #webgl-atmosphere
    wInitialized,    \* this.isInitialized
    renderer,        \* this.renderer: "null", "live" or "disposed"
    particles,       \* this.particles: "null", "live" or "disposed"
    wTime,           \* this.time
    frameCount,      \* this.frameCount
    lastFrameTime,   \* this.lastFrameTime (ms)
    isRunning,       \* this.isRunning: "undefined", "true" or "false"
    wRaf,            \* the render-loop callback is pending in the frame queue
    wListeners,      \* listeners registered by WebGLAtmosphere.bindEvents
    wMouse,          \* this.mouse, numerators over innerWidth / innerHeight
    particleCount,   \* this.particleCount
    lastDelta,       \* deltaTime of the last updateParticles call, in thousandths
    renderCalls,     \* history: number of renderer.render calls
    usedDisposed,    \* history: renderer.render was called on a disposed renderer
    wDestroyed,      \* history: WebGLAtmosphere.destroy() has returned
    clock,           \* timestamp of the last animation frame (ms)
    docHidden,       \* document.hidden
    \* ---- SoulstickApp performance monitor (src/unnamed/part_000) ----
    monitor,         \* "unset", "waiting" (3 s timer), "running" (frame callback
                     \* pending), "stopped"
    perfModeEnabled, \* the closure flag performanceModeEnabled
    perfClass,       \* document.body has the class 'performance-mode'
    app,             \* SoulstickApp: [phase, isInitialized, systems, rejected, ...]
    \* ---- TripleAPolish (src/scripts/webgl-atmosphere.js) ----
    polish,          \* [proximityThreshold, cursor, effect]
    \* ---- style.opacity of the pool's particle elements, in hundredths ----
    opacity,         \* slot -> opacity, followed where the styling is explored
    \* ---- ScrollSync (src/scripts/scroll-sync.js) ----
    lenisLoaded,     \* window.Lenis is defined
    gsapLoaded,      \* window.gsap is defined
    depTimer,        \* id of the pending checkDependencies timer (0: none)
    lenis,           \* this.lenis is non-null
    lenisOn,         \* handleScroll is subscribed to a live Lenis instance
    sInitialized,    \* this.isInitialized
    nativeListeners, \* window 'scroll' listeners that run handleNativeScroll
    scrollProgress,  \* this.scrollProgress
    scrollDirection, \* this.scrollDirection
    lastScrollY,     \* this.lastScrollY
    isScrolling,     \* this.isScrolling
    scrollTimeout,   \* this.scrollTimeout, a timer id (0 stands for null)
    timers,          \* the scroll-end timers that are pending: records [id, due]
    sNow,            \* the time (ms)
    scrollCallbacks, \* this.scrollCallbacks, in insertion order: records [id, does]
    cssProgress,     \* the custom property --scroll-progress
    uIntensity,      \* the uniform u_intensity WebGLAtmosphere.setIntensity writes
    sDestroyed,      \* history: ScrollSync.destroy() has returned
    lastScrollTo,    \* history: the last scrollTo call and what it did
    lastEvent,       \* history: the scroll event handled last
    lastEventAt,     \* history: the time the last Lenis scroll event was handled
    bursts,          \* history: number of bursts of Lenis scroll events begun
    burstLen,        \* history: number of events of the last burst, counted to a cap
    scrollEnds,      \* history: number of scrollEnd events dispatched
    subscribed,      \* history: ids in the order of their subscription
    offered,         \* history: ids registered when the last scroll update began
    invoked,         \* history: ids whose callback the last scroll update invoked
    registryCalls,   \* budget used by addScrollCallback / removeScrollCallback
    \* ---- bookkeeping of the bounded explorations ----
    spawnCalls,      \* number of spawnParticle calls so far
    updateCalls,     \* number of direct updateParticles calls so far
    overwrites,      \* number of spawns that hit a slot that was active
    extraCalls,      \* budget used by the non-spawn steps of the pool exploration
    ticks,           \* frame callbacks run in the fault exploration
    failStreak       \* consecutive failing ticks: [cursor |-> n, webgl |-> n]

cursorVars == <<cursorEl, cursorClass, cursorTransform, mouse, lastMouse, isActive,
                pool, poolIndex, rafId, cursorRaf, cursorScale, bodyCursor,
                cListeners, maxTrailLength, cDestroyed>>
webglVars  == <<isSupported, canvasPresent, wInitialized, renderer, particles, wTime,
                frameCount, lastFrameTime, isRunning, wRaf, wListeners, wMouse,
                particleCount, lastDelta, renderCalls, usedDisposed, wDestroyed,
                clock, docHidden>>
appVars    == <<monitor, perfModeEnabled, perfClass>>
siteVars   == <<app, lastScrollTo, polish, opacity>>
depVars    == <<lenisLoaded, gsapLoaded, depTimer, lenis, lenisOn, sInitialized,
                nativeListeners>>
stateVars  == <<scrollProgress, scrollDirection, lastScrollY, isScrolling, cssProgress,
                uIntensity, lastEvent>>
timerVars  == <<scrollTimeout, timers, sNow, lastEventAt, bursts, burstLen, scrollEnds>>
registryVars == <<scrollCallbacks, subscribed, offered, invoked, registryCalls>>
scrollVars == <<depVars, stateVars, timerVars, registryVars, sDestroyed>>
histVars   == <<spawnCalls, updateCalls, overwrites, extraCalls, ticks, failStreak>>
vars       == <<cursorVars, webglVars, appVars, siteVars, scrollVars, histVars>>

(***************************************************************************)
(* IEEE-754 binary64 arithmetic on the values a particle's life takes.     *)
(* A value is sign and magnitude; the magnitude is an integer number of    *)
(* units of 2^-58, kept in two limbs of 29 bits (hi * 2^29 + lo) so that   *)
(* every intermediate fits a 32-bit integer.  A result is rounded to 53    *)
(* significant bits, ties to even, as the hardware does.                   *)
(***************************************************************************)
LimbBits == 29
LimbBase == 2^LimbBits
MantissaBits == 53

FZero == [neg |-> FALSE, hi |-> 0, lo |-> 0]
\* 1.0 = 2^58 units
FOne  == [neg |-> FALSE, hi |-> LimbBase, lo |-> 0]

BitLen(n) == IF n = 0 THEN 0 ELSE CHOOSE k \in 1..30 : 2^(k-1) <= n /\ n < 2^k

MagLess(a, b) == a.hi < b.hi \/ (a.hi = b.hi /\ a.lo < b.lo)
MagEq(a, b)   == a.hi = b.hi /\ a.lo = b.lo

FCarry(h, l) == IF l >= LimbBase THEN [hi |-> h + 1, lo |-> l - LimbBase]
                ELSE IF l < 0 THEN [hi |-> h - 1, lo |-> l + LimbBase]
                ELSE [hi |-> h, lo |-> l]

\* round a magnitude to 53 significant bits, ties to even
FRound(m) ==
    LET p == IF m.hi > 0 THEN LimbBits + BitLen(m.hi) ELSE BitLen(m.lo)
    IN  IF p <= MantissaBits THEN m
        ELSE LET g    == 2^(p - MantissaBits)
                 r    == m.lo % g
                 down == m.lo - r
                 up   == (2 * r > g) \/ (2 * r = g /\ (down \div g) % 2 = 1)
             IN  FCarry(m.hi, IF up THEN down + g ELSE down)

FSigned(neg, m) == [neg |-> neg /\ ~(m.hi = 0 /\ m.lo = 0), hi |-> m.hi, lo |-> m.lo]

FAdd(a, b) ==
    IF a.neg = b.neg
    THEN FSigned(a.neg, FRound(FCarry(a.hi + b.hi, a.lo + b.lo)))
    ELSE IF MagEq(a, b) THEN FZero
    ELSE IF MagLess(b, a)
         THEN FSigned(a.neg, FRound(FCarry(a.hi - b.hi, a.lo - b.lo)))
         ELSE FSigned(b.neg, FRound(FCarry(b.hi - a.hi, b.lo - a.lo)))

FNeg(a) == FSigned(~a.neg, a)
FSub(a, b) == FAdd(a, FNeg(b))

FLess(a, b) ==
    IF a.neg /\ ~b.neg THEN TRUE
    ELSE IF ~a.neg /\ b.neg THEN FALSE
    ELSE IF a.neg THEN MagLess(b, a) ELSE MagLess(a, b)
FLeq(a, b) == FLess(a, b) \/ a = b

(***************************************************************************)
(* EmberCursor                                                             *)
(***************************************************************************)
maxParticles == 50

\* (the decay of a particleLife of 1.0: 1.0 / 60 = 4803839602528529 * 2^-58)
DecayOfLongLife == [neg |-> FALSE, hi |-> 8947848, lo |-> 286331153]

\* decay = 1.0 / (this.particleLife * 60): 0.8 * 60 rounds to 48.0 and 1.0 / 48.0
\* rounds to 6004799503160661 * 2^-58 = DecayHi * 2^29 + DecayLo units
DecayHi == 11184810
DecayLo == 357913941
Decay == [neg |-> FALSE, hi |-> DecayHi, lo |-> DecayLo]

\* the environment: viewport size and the pointer positions events carry
InnerWidth == 2
InnerHeight == 2
Positions == {[x |-> 0, y |-> 0], [x |-> 1, y |-> InnerHeight]}

CursorEvents == {"mousemove", "mouseenter", "mouseleave", "touchstart", "touchmove",
                 "touchend", "mousedown", "mouseup"}

\* a slot as initPool creates it.  at is <<x, y>> while the slot holds the
\* position initPool or a spawn wrote; once the physics step has displaced it by
\* the slot's velocity (a random jitter plus 0.1 of the pointer's movement, with
\* drag and rise) the position is any point, written Adrift.  attached says the
\* slot's element is in the document.
Adrift == <<>>
FreshSlot == [active |-> FALSE, life |-> FZero, at |-> <<0, 0>>, attached |-> TRUE]

InitPool == [i \in 1..maxParticles |-> FreshSlot]

\* (a wrap one slot short, as a slip in the modulus would give)
NextPoolIndexShort(idx) == (idx + 1) % (maxParticles - 1)
\* (no wrap at all)
NextPoolIndexNoWrap(idx) == idx + 1
NextPoolIndex(idx) == (idx + 1) % maxParticles

\* spawnParticle: the pool after the slot at idx has been respawned at m
SpawnSlot(p, m) == [p EXCEPT !.active = TRUE, !.life = FOne, !.at = <<m.x, m.y>>]
SpawnParticle(pl, idx, m) == [pl EXCEPT ![idx + 1] = SpawnSlot(@, m)]

\* updateParticles, one slot
UpdateSlot(p) ==
    IF ~p.active THEN p
    ELSE LET l == FSub(p.life, Decay)
         IN  IF FLeq(l, FZero)
             THEN [p EXCEPT !.life = l, !.active = FALSE]
             ELSE [p EXCEPT !.life = l, !.at = Adrift]
UpdateParticles(pl) == [i \in 1..maxParticles |-> UpdateSlot(pl[i])]

NumActive(pl) == Cardinality({i \in 1..Len(pl) : pl[i].active})

\* activate(), with m the value this.mouse holds when it runs
Activate(m) ==
    /\ isActive' = TRUE
    /\ cursorClass' = (IF cursorEl THEN TRUE ELSE cursorClass)
    /\ bodyCursor' = "none"
    /\ lastMouse' = m

\* deactivate()
Deactivate ==
    /\ isActive' = FALSE
    /\ cursorClass' = (IF cursorEl THEN FALSE ELSE cursorClass)
    /\ bodyCursor' = ""
    /\ UNCHANGED lastMouse

\* (a trail that spawns from the input handler)
HandleMouseMoveSpawning(pos) ==
    /\ mouse' = pos
    /\ IF ~isActive THEN Activate(pos)
       ELSE UNCHANGED <<isActive, cursorClass, bodyCursor, lastMouse>>
    /\ pool' = SpawnParticle(pool, poolIndex, pos)
    /\ poolIndex' = NextPoolIndex(poolIndex)

\* handleMouseMove(e), the listener bindEvents registers for 'mousemove'
HandleMouseMove(pos) ==
    /\ mouse' = pos
    /\ IF ~isActive THEN Activate(pos)
       ELSE UNCHANGED <<isActive, cursorClass, bodyCursor, lastMouse>>
    /\ UNCHANGED <<pool, poolIndex>>

\* handleTouch(e); touches is the event's touch list, a sequence of positions
HandleTouch(touches) ==
    /\ IF Len(touches) > 0
       THEN /\ mouse' = touches[1]
            /\ IF ~isActive THEN Activate(touches[1])
               ELSE UNCHANGED <<isActive, cursorClass, bodyCursor, lastMouse>>
       ELSE UNCHANGED <<mouse, isActive, cursorClass, bodyCursor, lastMouse>>
    /\ UNCHANGED <<pool, poolIndex>>

\* WebGLAtmosphere.handleMouseMove(event):
\* (clientX / innerWidth) * 2 - 1 = (2 clientX - innerWidth) / innerWidth
WebGLHandleMouseMove(pos) ==
    wMouse' = [x |-> 2 * pos.x - InnerWidth, y |-> InnerHeight - 2 * pos.y]

cursorRest == <<cursorEl, cursorTransform, rafId, cursorRaf, cursorScale, cListeners,
                maxTrailLength, cDestroyed>>
webglRest  == <<isSupported, canvasPresent, wInitialized, renderer, particles, wTime,
                frameCount, lastFrameTime, isRunning, wRaf, wListeners,
                particleCount, lastDelta, renderCalls, usedDisposed, wDestroyed,
                clock, docHidden>>

\* a 'mousemove' event on document reaches the cursor's listener, if registered
MouseMove(pos) ==
    /\ IF "mousemove" \in cListeners THEN HandleMouseMove(pos)
       ELSE UNCHANGED <<mouse, isActive, cursorClass, bodyCursor, lastMouse, pool, poolIndex>>
    /\ UNCHANGED <<cursorRest, webglVars, appVars, siteVars, scrollVars, histVars>>

\* a 'mousemove' event on document reaches the atmosphere's listener, if registered
WebGLMouseMove(pos) ==
    /\ IF "mousemove" \in wListeners THEN WebGLHandleMouseMove(pos) ELSE UNCHANGED wMouse
    /\ UNCHANGED <<cursorVars, webglRest, appVars, siteVars, scrollVars, histVars>>

\* 'touchstart' and 'touchmove' both run handleTouch
Touch(kind, touches) ==
    /\ kind \in {"touchstart", "touchmove"}
    /\ IF kind \in cListeners THEN HandleTouch(touches)
       ELSE UNCHANGED <<mouse, isActive, cursorClass, bodyCursor, lastMouse, pool, poolIndex>>
    /\ UNCHANGED <<cursorRest, webglVars, appVars, siteVars, scrollVars, histVars>>

MouseEnter ==
    /\ IF "mouseenter" \in cListeners THEN Activate(mouse)
       ELSE UNCHANGED <<isActive, cursorClass, bodyCursor, lastMouse>>
    /\ UNCHANGED <<mouse, pool, poolIndex, cursorRest, webglVars, appVars, siteVars, scrollVars, histVars>>

MouseLeave ==
    /\ IF "mouseleave" \in cListeners THEN Deactivate
       ELSE UNCHANGED <<isActive, cursorClass, bodyCursor, lastMouse>>
    /\ UNCHANGED <<mouse, pool, poolIndex, cursorRest, webglVars, appVars, siteVars, scrollVars, histVars>>

TouchEnd ==
    /\ IF "touchend" \in cListeners THEN Deactivate
       ELSE UNCHANGED <<isActive, cursorClass, bodyCursor, lastMouse>>
    /\ UNCHANGED <<mouse, pool, poolIndex, cursorRest, webglVars, appVars, siteVars, scrollVars, histVars>>

\* scaleCursor(scale), from 'mousedown' (0.8) and 'mouseup' (1)
ScaleCursor(kind, scale) ==
    /\ cursorScale' = (IF kind \in cListeners THEN scale ELSE cursorScale)
    /\ UNCHANGED <<cursorEl, cursorClass, cursorTransform, mouse, lastMouse, isActive,
                   pool, poolIndex, rafId, cursorRaf, bodyCursor, cListeners,
                   maxTrailLength, cDestroyed, webglVars, appVars, siteVars, scrollVars, histVars>>
MouseDown == ScaleCursor("mousedown", 80)
MouseUp   == ScaleCursor("mouseup", 100)

ThrowPoints == {"spawnParticle", "updateParticles", "renderCursor"}

\* the number of spawnParticle calls an exploration follows
MaxSpawnCalls == 52

\* (a loop that advances the pool before it spawns)
TickPoolUpdateFirst(throwAt) ==
    IF throwAt = "spawnParticle" THEN pool
    ELSE IF throwAt = "updateParticles" THEN SpawnParticle(pool, poolIndex, mouse)
    ELSE SpawnParticle(UpdateParticles(pool), poolIndex, mouse)

\* the pool and index a tick leaves; throwAt names the call that throws, if any
\* (a call that throws is taken to throw on entry, before it writes anything)
TickPool(throwAt) ==
    IF throwAt = "spawnParticle" THEN pool
    ELSE IF throwAt = "updateParticles" THEN SpawnParticle(pool, poolIndex, mouse)
    ELSE UpdateParticles(SpawnParticle(pool, poolIndex, mouse))
TickIndex(throwAt) ==
    IF throwAt = "spawnParticle" THEN poolIndex ELSE NextPoolIndex(poolIndex)

\* renderCursor()
RenderCursor ==
    IF cursorEl THEN [x |-> mouse.x, y |-> mouse.y, scale |-> cursorScale]
    ELSE cursorTransform

\* requestAnimationFrame hands out a fresh id on every request: the id of a
\* new request differs from the id of the request whose callback is running.
\* The ids are followed as two values that alternate.
NextRafId(id) == IF id = 1 THEN 2 ELSE 1

\* (a loop that asks for the next frame as the last thing a tick does)
RequestNextAtEnd(throwAt) == throwAt = "none"

\* does the animate callback ask for the next frame?  It does so before it
\* does anything else, so whatever the tick then throws
RequestNext(throwAt) == TRUE

\* the animate callback of startAnimationLoop
CursorFrame(throwAt) ==
    /\ cursorRaf # 0
    /\ spawnCalls < MaxSpawnCalls
    /\ LET spawns == isActive /\ throwAt # "spawnParticle"
       IN  /\ spawnCalls' = spawnCalls + (IF spawns THEN 1 ELSE 0)
           /\ overwrites' = overwrites
                            + (IF spawns /\ pool[poolIndex + 1].active THEN 1 ELSE 0)
    /\ UNCHANGED <<updateCalls, extraCalls>>
    /\ cursorRaf' = (IF RequestNext(throwAt) THEN NextRafId(cursorRaf) ELSE 0)
    /\ rafId' = (IF RequestNext(throwAt) THEN NextRafId(cursorRaf) ELSE rafId)
    /\ IF ~isActive
       THEN UNCHANGED <<pool, poolIndex, cursorTransform, lastMouse>>
       ELSE /\ pool' = TickPool(throwAt)
            /\ poolIndex' = TickIndex(throwAt)
            /\ cursorTransform' = (IF throwAt = "none" THEN RenderCursor
                                   ELSE cursorTransform)
            /\ lastMouse' = (IF throwAt = "none" THEN mouse ELSE lastMouse)
    /\ UNCHANGED <<cursorEl, cursorClass, mouse, isActive, cursorScale, bodyCursor,
                   cListeners, maxTrailLength, cDestroyed, webglVars, appVars, siteVars, scrollVars>>

\* destroy()
DestroyedPool(pl) == [i \in 1..Len(pl) |-> [pl[i] EXCEPT !.attached = FALSE]]
RemovedByDestroy == {"mousemove"}
CursorDestroyEffect ==
    /\ cursorRaf' = (IF rafId # 0 /\ cursorRaf = rafId THEN 0 ELSE cursorRaf)
    /\ cListeners' = cListeners \ RemovedByDestroy
    /\ pool' = DestroyedPool(pool)
    /\ cDestroyed' = TRUE
    /\ UNCHANGED <<cursorEl, cursorClass, cursorTransform, mouse, lastMouse, isActive,
                   poolIndex, rafId, cursorScale, bodyCursor, maxTrailLength>>
CursorDestroy ==
    /\ CursorDestroyEffect
    /\ UNCHANGED <<webglVars, appVars, siteVars, scrollVars, histVars>>

(***************************************************************************)
(* WebGLAtmosphere                                                         *)
(***************************************************************************)
targetFPS == 60

\* the intervals between two animation frames the environment may deliver (ms)
FrameSteps == {7, 17}
MaxClock == 70

ParticleCounts == {50, 100, 150}

WebGLEvents == {"resize", "mousemove", "visibilitychange"}

\* (a loop without the limiter)
RenderDueAlways(currentTime) == TRUE

\* the frame-rate limiter of startRenderLoop:
\* currentTime - lastFrameTime >= 1000 / targetFPS, on whole milliseconds
RenderDue(currentTime) == (currentTime - lastFrameTime) * targetFPS >= 1000

\* render() gets past its guard
RenderRuns == wInitialized /\ renderer # "null"

\* the render-loop callback keeps itself scheduled: it asks for the next frame
\* before it renders, and nothing in the class cancels the request
WebGLRequestNext(throws) == TRUE

\* pause() / resume(): the only thing they do is set the flag
Pause  == "false"
Resume == "true"

\* the animate callback of startRenderLoop, with render() and the
\* updateParticles call inside it; throws says renderer.render throws
WebGLFrame(dt, throws) ==
    /\ wRaf
    /\ clock + dt <= MaxClock
    /\ clock' = clock + dt
    /\ wRaf' = WebGLRequestNext(throws)
    /\ IF RenderDue(clock + dt)
       THEN /\ IF RenderRuns
               THEN /\ wTime' = wTime + 1
                    /\ lastDelta' = (IF particles # "null" THEN wTime * 16 ELSE lastDelta)
                    /\ renderCalls' = renderCalls + 1
                    /\ usedDisposed' = (usedDisposed \/ renderer = "disposed")
               ELSE UNCHANGED <<wTime, lastDelta, renderCalls, usedDisposed>>
            /\ IF throws /\ RenderRuns
               THEN UNCHANGED <<lastFrameTime, frameCount>>
               ELSE /\ lastFrameTime' = clock + dt
                    /\ frameCount' = frameCount + 1
       ELSE UNCHANGED <<wTime, lastDelta, renderCalls, usedDisposed, lastFrameTime,
                        frameCount>>
    /\ UNCHANGED <<isSupported, canvasPresent, wInitialized, renderer, particles,
                   isRunning, wListeners, wMouse, particleCount, wDestroyed, docHidden,
                   cursorVars, appVars, siteVars, scrollVars>>

\* a 'visibilitychange' event: document.hidden flips, then the listener of
\* WebGLAtmosphere.bindEvents (when registered) and the application's listener
\* (always registered) call pause() or resume()
VisibilityChange ==
    /\ docHidden' = ~docHidden
    /\ isRunning' = (IF docHidden' THEN Pause ELSE Resume)
    /\ UNCHANGED <<isSupported, canvasPresent, wInitialized, renderer, particles, wTime,
                   frameCount, lastFrameTime, wRaf, wListeners, wMouse, particleCount,
                   lastDelta, renderCalls, usedDisposed, wDestroyed, clock,
                   cursorVars, appVars, siteVars, scrollVars, histVars>>

\* destroy(): the listeners were registered as bound copies, so the
\* removeEventListener calls, given the unbound methods, remove nothing
RemovedByWebGLDestroy == {}
Dispose(h) == IF h = "null" THEN "null" ELSE "disposed"
WebGLDestroy ==
    /\ renderer' = Dispose(renderer)
    /\ particles' = Dispose(particles)
    /\ wListeners' = wListeners \ RemovedByWebGLDestroy
    /\ wDestroyed' = TRUE
    /\ UNCHANGED <<isSupported, canvasPresent, wInitialized, wTime, frameCount,
                   lastFrameTime, isRunning, wRaf, wMouse, particleCount, lastDelta,
                   renderCalls, usedDisposed, clock, docHidden,
                   cursorVars, appVars, siteVars, scrollVars, histVars>>

(***************************************************************************)
(* SoulstickApp: performance monitor                                       *)
(***************************************************************************)
\* enablePerformanceMode() throws at renderer.setPixelRatio when the
\* WebGLAtmosphere instance has no renderer
PerformanceModeThrows == renderer = "null"

\* Math.floor(particleCount * 0.3)
ReducedCount(n) == (n * 3) \div 10

\* what enablePerformanceMode() sets on the cursor
PerformanceTrail(cur) == 5

EnablePerformanceMode ==
    /\ particleCount' = ReducedCount(particleCount)
    /\ IF PerformanceModeThrows
       THEN UNCHANGED <<perfClass, maxTrailLength>>
       ELSE /\ perfClass' = TRUE
            /\ maxTrailLength' = PerformanceTrail(maxTrailLength)

\* the 3 s timer of setupPerformanceMonitoring fires
MonitorStart ==
    /\ monitor = "waiting"
    /\ monitor' = "running"
    /\ UNCHANGED <<perfModeEnabled, perfClass, siteVars, cursorVars, webglVars, scrollVars,
                   histVars>>

\* measurePerformance, a frame callback; low says this call finds a window of
\* 2 s or more with fewer than 30 frames per second
MeasurePerformance(low) ==
    /\ monitor = "running"
    /\ IF low /\ ~perfModeEnabled
       THEN /\ EnablePerformanceMode
            /\ perfModeEnabled' = ~PerformanceModeThrows
            /\ monitor' = "stopped"
       ELSE UNCHANGED <<particleCount, perfClass, maxTrailLength, perfModeEnabled,
                        monitor>>
    /\ UNCHANGED <<cursorEl, cursorClass, cursorTransform, mouse, lastMouse, isActive,
                   pool, poolIndex, rafId, cursorRaf, cursorScale, bodyCursor,
                   cListeners, cDestroyed,
                   isSupported, canvasPresent, wInitialized, renderer, particles, wTime,
                   frameCount, lastFrameTime, isRunning, wRaf, wListeners, wMouse,
                   lastDelta, renderCalls, usedDisposed, wDestroyed, clock, docHidden,
                   siteVars, scrollVars, histVars>>

(***************************************************************************)
(* ScrollSync                                                              *)
(***************************************************************************)
\* the numbers a progress takes: a quotient n / d of integers with d > 0, or
\* what a division by zero gives; Unset stands for a property never written
Quot(n, d) == [kind |-> "finite", n |-> n, d |-> d]
NaN == [kind |-> "NaN", n |-> 0, d |-> 1]
Infinite(neg) == [kind |-> IF neg THEN "-Infinity" ELSE "Infinity", n |-> 0, d |-> 1]
Unset == [kind |-> "unset", n |-> 0, d |-> 1]

\* a / b as JavaScript divides numbers
Div(a, b) == IF b > 0 THEN Quot(a, b)
             ELSE IF b < 0 THEN Quot(0 - a, 0 - b)
             ELSE IF a = 0 THEN NaN
             ELSE Infinite(a < 0)

\* the delay of the scroll-end timer (ms)
ScrollEndDelay == 150

\* the environment: how far the time moves between two callbacks, the scroll
\* events Lenis emits, and the scroll metrics of the document at a native event
TimeSteps == {50, 100}
MaxScrollClock == 400
LenisProgress == {Quot(1, 2), Quot(1, 1)}
LenisDirections == {0 - 1, 0, 1}
LenisEvents == [progress : LenisProgress, direction : LenisDirections]
PageOffsets == {0 - 1, 0, 1, 3}
ScrollHeights == {InnerHeight, InnerHeight + 2}

\* subscribers: what a registered callback does when it is called
SubscriberIds == {1, 2, 3}
Behaviours == {[kind |-> "ok", target |-> 0], [kind |-> "throw", target |-> 0]}
              \cup {[kind |-> "remove", target |-> t] : t \in SubscriberIds}

Range(seq) == {seq[i] : i \in DOMAIN seq}
Ids(reg) == {reg[i].id : i \in DOMAIN reg}
IdsInOrder(reg) == [i \in DOMAIN reg |-> reg[i].id]
Keep(seq, ids) == SelectSeq(seq, LAMBDA id : id \in ids)

\* Map.prototype.delete
Without(reg, id) == SelectSeq(reg, LAMBDA e : e.id # id)

\* (a map that puts a new key first)
InsertNewFirst(reg, e) == <<e>> \o reg
\* Map.prototype.set: a new key goes last, an existing key keeps its place
InsertNew(reg, e) == Append(reg, e)
MapSet(reg, e) ==
    IF e.id \in Ids(reg)
    THEN [i \in DOMAIN reg |-> IF reg[i].id = e.id THEN e ELSE reg[i]]
    ELSE InsertNew(reg, e)

\* (a delivery over a copy of the map taken when the update began)
VisitsSnapshot(reg, e) == TRUE
\* Map.prototype.forEach walks the live map: an entry deleted before its turn
\* is not visited
Visits(reg, e) == e.id \in Ids(reg)

\* (a delivery without the try / catch: the first throw ends it)
ContinuesUnlessThrown(e) == e.does.kind # "throw"
\* the try / catch around each call: a throw is logged and the walk goes on
Continues(e) == TRUE

\* what the call of a subscriber does to the map
AfterCall(reg, e) == IF e.does.kind = "remove" THEN Without(reg, e.does.target) ELSE reg

\* this.scrollCallbacks.forEach(...) of handleScroll: the map it leaves and the
\* ids it called, in order.  queue holds the entries still ahead of the walk
RECURSIVE Deliver(_, _)
Deliver(reg, queue) ==
    IF queue = <<>> THEN [reg |-> reg, log |-> <<>>]
    ELSE LET e == Head(queue)
         IN  IF ~Visits(reg, e) THEN Deliver(reg, Tail(queue))
             ELSE LET rest == IF Continues(e) THEN Deliver(AfterCall(reg, e), Tail(queue))
                              ELSE [reg |-> AfterCall(reg, e), log |-> <<>>]
                  IN  [reg |-> rest.reg, log |-> <<e.id>> \o rest.log]

\* setTimeout hands out a fresh id on every call; the ids are followed as two
\* values that alternate
NextTimerId(id) == IF id = 1 THEN 2 ELSE 1

\* (a handler that arms the new timer without clearing the old one)
ClearedNothing(ts, id) == ts
\* if (this.scrollTimeout) clearTimeout(this.scrollTimeout)
Cleared(ts, id) == IF id # 0 THEN {t \in ts : t.id # id} ELSE ts

\* (a scroll-end timer without a delay)
TimerDueAtOnce(now) == now
\* setTimeout(..., 150)
TimerDue(now) == now + ScrollEndDelay

\* syncWithWebGL: intensity = 0.5 + scrollProgress * 0.5
Intensity(p) == Quot(p.d + p.n, 2 * p.d)
\* window.emberCursor is set once EmberCursor is constructed, and EmberCursor
\* has no method setRevealRadius: the call in syncWithWebGL throws
HasSetRevealRadius == FALSE
SyncThrows == ~HasSetRevealRadius

Toggled(seq) == 1 - seq

\* (a direction taken from the sign of the offset instead of its delta)
NativeDirectionOfOffset(scrollY, last) == IF scrollY > 0 THEN "down" ELSE "up"
\* scrollY > this.lastScrollY ? 'down' : 'up'
NativeDirection(scrollY, last) == IF scrollY > last THEN "down" ELSE "up"
\* e.direction > 0 ? 'down' : 'up'
LenisDirection(e) == IF e.direction > 0 THEN "down" ELSE "up"

\* the events of a burst are counted up to MaxBurstLen
MaxBurstLen == 2
CountedUpTo(n) == IF n > MaxBurstLen THEN MaxBurstLen ELSE n

\* does the event handled at now open a burst: is the previous one 150 ms back?
OpensBurst(now) == now - lastEventAt >= ScrollEndDelay

\* handleScroll(e), the listener bindScrollEvents subscribes to Lenis
HandleScroll(e) ==
    LET d == Deliver(scrollCallbacks, scrollCallbacks)
        id == NextTimerId(scrollTimeout)
    IN  /\ scrollProgress' = e.progress
        /\ scrollDirection' = LenisDirection(e)
        /\ isScrolling' = TRUE
        /\ timers' = Cleared(timers, scrollTimeout) \cup {[id |-> id, due |-> TimerDue(sNow)]}
        /\ scrollTimeout' = id
        /\ scrollCallbacks' = d.reg
        /\ subscribed' = Keep(subscribed, Ids(d.reg))
        /\ offered' = IdsInOrder(scrollCallbacks)
        /\ invoked' = d.log
        /\ uIntensity' = (IF wInitialized THEN Intensity(e.progress) ELSE uIntensity)
        /\ cssProgress' = (IF SyncThrows THEN cssProgress ELSE e.progress)
        /\ lastEvent' = [kind |-> "lenis", y |-> 0, direction |-> e.direction,
                         progress |-> e.progress, seq |-> Toggled(lastEvent.seq)]
        /\ lastEventAt' = sNow
        /\ bursts' = bursts + (IF OpensBurst(sNow) THEN 1 ELSE 0)
        /\ burstLen' = (IF OpensBurst(sNow) THEN 1 ELSE CountedUpTo(burstLen + 1))

\* a due timer runs before an event that arrives at or after its due time
NoTimerDue == \A t \in timers : t.due > sNow

\* Lenis emits 'scroll'
LenisScroll(e) ==
    /\ lenisOn
    /\ NoTimerDue
    /\ HandleScroll(e)
    /\ UNCHANGED <<depVars, lastScrollY, sNow, scrollEnds, registryCalls, sDestroyed,
                   cursorVars, webglVars, appVars, siteVars, histVars>>

\* handleNativeScroll(), with the document's pageYOffset and scrollHeight
HandleNativeScroll(scrollY, scrollHeight) ==
    IF lenis
    THEN UNCHANGED <<scrollProgress, scrollDirection, lastScrollY, cssProgress, lastEvent>>
    ELSE LET documentHeight == scrollHeight - InnerHeight
         IN  /\ scrollProgress' = Div(scrollY, documentHeight)
             /\ scrollDirection' = NativeDirection(scrollY, lastScrollY)
             /\ lastScrollY' = scrollY
             /\ cssProgress' = Div(scrollY, documentHeight)
             /\ lastEvent' = [kind |-> "native", y |-> scrollY, direction |-> 0,
                              progress |-> Unset, seq |-> Toggled(lastEvent.seq)]

\* a 'scroll' event on window reaches the registered listener (while this.lenis
\* is null there is at most one)
NativeScroll(scrollY, scrollHeight) ==
    /\ IF nativeListeners > 0 THEN HandleNativeScroll(scrollY, scrollHeight)
       ELSE UNCHANGED <<scrollProgress, scrollDirection, lastScrollY, cssProgress, lastEvent>>
    /\ UNCHANGED <<isScrolling, uIntensity, depVars, timerVars, registryVars, sDestroyed,
                   cursorVars, webglVars, appVars, siteVars, histVars>>

\* (a timer callback that dispatches scrollEnd and leaves the flag)
ScrollEndTimerKeepsFlag ==
    /\ \E t \in timers :
          /\ t.due <= sNow
          /\ timers' = timers \ {t}
    /\ scrollEnds' = scrollEnds + 1
    /\ UNCHANGED <<isScrolling, scrollProgress, scrollDirection, lastScrollY, cssProgress,
                   uIntensity, lastEvent, scrollTimeout, sNow, lastEventAt, bursts, burstLen,
                   depVars, registryVars, sDestroyed, cursorVars, webglVars, appVars,
                   siteVars, histVars>>

\* the callback of the scroll-end timer, with onScrollEnd()
ScrollEndTimer ==
    /\ \E t \in timers :
          /\ t.due <= sNow
          /\ timers' = timers \ {t}
    /\ isScrolling' = FALSE
    /\ scrollEnds' = scrollEnds + 1
    /\ UNCHANGED <<scrollProgress, scrollDirection, lastScrollY, cssProgress, uIntensity,
                   lastEvent, scrollTimeout, sNow, lastEventAt, bursts, burstLen, depVars,
                   registryVars, sDestroyed, cursorVars, webglVars, appVars, siteVars, histVars>>

\* time passes; a timer runs when it is due
AdvanceTime(dt) ==
    /\ sNow + dt <= MaxScrollClock
    /\ \A t \in timers : sNow + dt <= t.due
    /\ sNow' = sNow + dt
    /\ UNCHANGED <<stateVars, scrollTimeout, timers, lastEventAt, bursts, burstLen, scrollEnds,
                   depVars, registryVars, sDestroyed, cursorVars, webglVars, appVars, siteVars,
                   histVars>>

\* the script of a library finishes loading
LenisLoads ==
    /\ ~lenisLoaded
    /\ lenisLoaded' = TRUE
    /\ UNCHANGED <<gsapLoaded, depTimer, lenis, lenisOn, sInitialized, nativeListeners,
                   stateVars, timerVars, registryVars, sDestroyed,
                   cursorVars, webglVars, appVars, siteVars, histVars>>
GsapLoads ==
    /\ ~gsapLoaded
    /\ gsapLoaded' = TRUE
    /\ UNCHANGED <<lenisLoaded, depTimer, lenis, lenisOn, sInitialized, nativeListeners,
                   stateVars, timerVars, registryVars, sDestroyed,
                   cursorVars, webglVars, appVars, siteVars, histVars>>

\* waitForDependencies: the test checkDependencies makes
DependenciesReady == lenisLoaded /\ gsapLoaded

\* setupFallback(): registers handleNativeScroll for 'scroll'
SetupFallbackEffect ==
    /\ nativeListeners' = nativeListeners + 1
    /\ UNCHANGED <<lenis, lenisOn, sInitialized>>

\* setupLenis(), bindScrollEvents(), setupScrollTriggers() and the rest of init
SetupLenisEffect ==
    /\ lenis' = TRUE
    /\ lenisOn' = TRUE
    /\ nativeListeners' = nativeListeners + 1
    /\ sInitialized' = TRUE

\* init() after waitForDependencies has resolved
InitContinues == IF ~lenisLoaded THEN SetupFallbackEffect ELSE SetupLenisEffect

\* checkDependencies run by its timer: it resolves the promise, and init goes
\* on, or it arms the timer again
DependencyPoll ==
    /\ depTimer # 0
    /\ IF DependenciesReady
       THEN /\ depTimer' = 0
            /\ InitContinues
       ELSE /\ depTimer' = NextTimerId(depTimer)
            /\ UNCHANGED <<lenis, lenisOn, sInitialized, nativeListeners>>
    /\ UNCHANGED <<lenisLoaded, gsapLoaded, stateVars, timerVars, registryVars, sDestroyed,
                   cursorVars, webglVars, appVars, siteVars, histVars>>

\* setupFallback() called on an instance whose init is still waiting
SetupFallback ==
    /\ depTimer # 0
    /\ nativeListeners = 0
    /\ SetupFallbackEffect
    /\ UNCHANGED <<lenisLoaded, gsapLoaded, depTimer, stateVars, timerVars, registryVars,
                   sDestroyed, cursorVars, webglVars, appVars, siteVars, histVars>>

\* the number of addScrollCallback / removeScrollCallback calls an exploration follows
MaxRegistryCalls == 3

\* addScrollCallback(id, callback)
AddScrollCallback(id, does) ==
    /\ registryCalls < MaxRegistryCalls
    /\ scrollCallbacks' = MapSet(scrollCallbacks, [id |-> id, does |-> does])
    /\ subscribed' = (IF id \in Range(subscribed) THEN subscribed ELSE Append(subscribed, id))
    /\ registryCalls' = registryCalls + 1
    /\ UNCHANGED <<offered, invoked, depVars, stateVars, timerVars, sDestroyed,
                   cursorVars, webglVars, appVars, siteVars, histVars>>

\* removeScrollCallback(id)
RemoveScrollCallback(id) ==
    /\ registryCalls < MaxRegistryCalls
    /\ scrollCallbacks' = Without(scrollCallbacks, id)
    /\ subscribed' = Keep(subscribed, Range(subscribed) \ {id})
    /\ registryCalls' = registryCalls + 1
    /\ UNCHANGED <<offered, invoked, depVars, stateVars, timerVars, sDestroyed,
                   cursorVars, webglVars, appVars, siteVars, histVars>>

\* destroy(): lenis.destroy() ends the Lenis instance and its events; the
\* window listeners were registered as bound copies, so the removeEventListener
\* calls, given the unbound methods, remove nothing
RemovedByScrollDestroy == 0
ScrollDestroy ==
    /\ lenisOn' = (IF lenis THEN FALSE ELSE lenisOn)
    /\ scrollCallbacks' = <<>>
    /\ subscribed' = <<>>
    /\ nativeListeners' = nativeListeners - RemovedByScrollDestroy
    /\ sDestroyed' = TRUE
    /\ UNCHANGED <<lenisLoaded, gsapLoaded, depTimer, lenis, sInitialized, offered, invoked,
                   registryCalls, stateVars, timerVars, cursorVars, webglVars, appVars, siteVars,
                   histVars>>

(***************************************************************************)
(* ScrollSync.scrollTo and scrollToTop                                     *)
(***************************************************************************)
\* the targets a caller passes: a selector string (which matches an element of
\* the document or none), an element, or a number
ScrollOffsets == {0, 100}
ScrollTargets ==
    {[kind |-> "selector", matches |-> m, offset |-> 0] : m \in BOOLEAN}
    \cup {[kind |-> "element", matches |-> TRUE, offset |-> 0]}
    \cup {[kind |-> "number", matches |-> FALSE, offset |-> n] : n \in ScrollOffsets}

NullElement == [kind |-> "null", matches |-> FALSE, offset |-> 0]
NoScrollTo == [target |-> NullElement, via |-> "none", threw |-> FALSE, seq |-> 0]

\* document.querySelector(target)
QuerySelector(target) ==
    IF target.matches THEN [kind |-> "element", matches |-> TRUE, offset |-> 0]
    ELSE NullElement

\* typeof target === 'string' ? document.querySelector(target) : target
ElementOf(target) == IF target.kind = "selector" THEN QuerySelector(target) ELSE target

\* if (element): null and the number 0 are falsy
Truthy(element) ==
    /\ element.kind # "null"
    /\ ~(element.kind = "number" /\ element.offset = 0)

\* element.scrollIntoView is a function of elements only: on a number the
\* call is a TypeError
HasScrollIntoView(element) == element.kind = "element"

\* the branch of scrollTo taken without a Lenis instance
FallbackScrollTo(target) ==
    LET element == ElementOf(target)
    IN  IF ~Truthy(element) THEN [via |-> "none", threw |-> FALSE]
        ELSE IF HasScrollIntoView(element) THEN [via |-> "scrollIntoView", threw |-> FALSE]
        ELSE [via |-> "none", threw |-> TRUE]

\* scrollTo(target): Lenis takes every kind of target
ScrollToOutcome(target) ==
    IF lenis THEN [via |-> "lenis", threw |-> FALSE] ELSE FallbackScrollTo(target)

ScrollTo(target) ==
    /\ lastScrollTo' = [target |-> target, via |-> ScrollToOutcome(target).via,
                        threw |-> ScrollToOutcome(target).threw,
                        seq |-> Toggled(lastScrollTo.seq)]
    /\ UNCHANGED <<app, polish, opacity, cursorVars, webglVars, appVars, scrollVars,
                   histVars>>

\* scrollToTop()
TopTarget == [kind |-> "number", matches |-> FALSE, offset |-> 0]
ScrollToTop == ScrollTo(TopTarget)

(***************************************************************************)
(* SoulstickApp: init() and initializeSystems()                            *)
(***************************************************************************)
\* the systems initializeSystems() constructs, in the order of its calls
SystemOrder == <<"webgl", "cursor", "scroll">>
Systems == {"webgl", "cursor", "scroll"}
Throws == [Systems -> BOOLEAN]
NoThrow == [s \in Systems |-> FALSE]

\* (the flag raised before the constructor is called)
InitializeSystemEager(threw) == [ready |-> TRUE, promise |-> "fulfilled"]

\* initializeWebGL / initializeEmberCursor / initializeScrollSync: the
\* constructor is called inside try, and both branches end in resolve()
InitializeSystem(threw) == [ready |-> ~threw, promise |-> "fulfilled"]

\* Promise.allSettled(systems) is fulfilled once every promise is settled
AllSettled(promises) ==
    IF \A s \in DOMAIN promises : promises[s] # "pending" THEN "fulfilled" ELSE "pending"

\* checkSystemHealth(): the share of true flags among webgl, cursor, scroll
\* and audio (audio is always false) is below 0.75
Degraded(ready) == Cardinality({s \in Systems : ready[s]}) * 100 < 75 * (Cardinality(Systems) + 1)

\* the object the constructor of SoulstickApp leaves when it calls init()
NewApp == [phase |-> "constructed", isInitialized |-> FALSE, systems |-> NoThrow,
           attempted |-> <<>>, threw |-> NoThrow, settled |-> "pending",
           loadingScreen |-> FALSE, lightTheme |-> FALSE, mobile |-> FALSE,
           notified |-> FALSE]

\* the same object once init() has returned, with every system constructed
RunningApp == [phase |-> "ready", isInitialized |-> TRUE,
               systems |-> [s \in Systems |-> TRUE],
               attempted |-> SystemOrder, threw |-> NoThrow, settled |-> "fulfilled",
               loadingScreen |-> FALSE, lightTheme |-> FALSE, mobile |-> FALSE,
               notified |-> FALSE]

\* Math.min(particleCount, 100) of setupMobileOptimizations()
MobileCount(n) == IF n < 100 THEN n ELSE 100

\* init() up to its first await: initTheme(), showLoadingScreen() and the
\* synchronous part of initializeSystems(), the three promise executors.
\* threw says which constructors throw, light that the saved theme is
\* 'light', overlay that the document has #loading-overlay
AppInitBegins(threw, light, overlay) ==
    /\ app.phase = "constructed"
    /\ app' = [app EXCEPT !.phase = "systems",
                          !.lightTheme = light,
                          !.loadingScreen = overlay,
                          !.attempted = SystemOrder,
                          !.threw = threw,
                          !.systems = [s \in Systems |-> InitializeSystem(threw[s]).ready],
                          !.settled = AllSettled([s \in Systems |->
                                                     InitializeSystem(threw[s]).promise])]
    /\ UNCHANGED <<lastScrollTo, polish, opacity, cursorVars, webglVars, appVars, scrollVars,
                   histVars>>

\* init() from the settlement of Promise.allSettled to its second await:
\* checkSystemHealth(), setupInteractions(), setupPerformanceMonitoring() and
\* startExperience(), which waits 750 ms when there is a loading screen.
\* mobile says that the user agent is a mobile one
AppSystemsSettled(mobile) ==
    /\ app.phase = "systems"
    /\ app.settled = "fulfilled"
    /\ app' = [app EXCEPT !.phase = IF app.loadingScreen THEN "fading" ELSE "started",
                          !.notified = Degraded(app.systems),
                          !.mobile = mobile]
    /\ particleCount' = (IF mobile /\ app.systems.webgl THEN MobileCount(particleCount)
                         ELSE particleCount)
    /\ monitor' = "waiting"
    /\ UNCHANGED <<isSupported, canvasPresent, wInitialized, renderer, particles, wTime,
                   frameCount, lastFrameTime, isRunning, wRaf, wListeners, wMouse,
                   lastDelta, renderCalls, usedDisposed, wDestroyed, clock, docHidden,
                   perfModeEnabled, perfClass, lastScrollTo, polish, opacity, cursorVars,
                   scrollVars, histVars>>

\* the 750 ms timer of startExperience() hides the loading screen and resolves
AppLoadingFaded ==
    /\ app.phase = "fading"
    /\ app' = [app EXCEPT !.phase = "started"]
    /\ UNCHANGED <<lastScrollTo, polish, opacity, cursorVars, webglVars, appVars, scrollVars,
                   histVars>>

\* init() after its second await
AppInitEnds ==
    /\ app.phase = "started"
    /\ app' = [app EXCEPT !.phase = "ready", !.isInitialized = TRUE]
    /\ UNCHANGED <<lastScrollTo, polish, opacity, cursorVars, webglVars, appVars, scrollVars,
                   histVars>>

(***************************************************************************)
(* TripleAPolish: the proximity effect                                     *)
(***************************************************************************)
\* const proximityThreshold = 120 of handleCursorProximity
ProximityLimit == 120

\* the values a caller gives setProximityThreshold
Thresholds == {60, 100, 150, 200}

\* getBoundingClientRect() of the one proximity element of the page
ElementRect == [left |-> 150, top |-> 150, width |-> 100, height |-> 100]

\* the pointer positions of the mousemove events: at distances 0, 60, 100,
\* 120, 150 and 200 from the centre of the element
CursorPoints == {<<200, 200>>, <<236, 248>>, <<260, 280>>, <<272, 296>>, <<290, 320>>,
                 <<320, 360>>}

ElementCenter(rect) == [x |-> rect.left + rect.width \div 2,
                        y |-> rect.top + rect.height \div 2]

\* Math.sqrt, on the squares the positions above give
Sqrt(n) == CHOOSE r \in 0..n : r * r <= n /\ (r + 1) * (r + 1) > n

Distance(cursor, center) ==
    Sqrt((cursor[1] - center.x) * (cursor[1] - center.x)
         + (cursor[2] - center.y) * (cursor[2] - center.y))

\* the object the constructor of TripleAPolish leaves: no proximityThreshold
\* property (0 stands for undefined), the element without the effect
NewPolish == [proximityThreshold |-> 0, cursor |-> <<>>, class |-> FALSE,
              intensity |-> Unset, scale |-> 0, moves |-> 0]

\* the limit handleCursorProximity compares the distance with
LimitOf(p) == ProximityLimit

\* applyProximityEffect / removeProximityEffect, chosen by the distance
HandleCursorProximity(p, cursor) ==
    LET distance == Distance(cursor, ElementCenter(ElementRect))
        limit == LimitOf(p)
    IN  IF distance < limit
        THEN [p EXCEPT !.cursor = cursor, !.class = TRUE,
                       !.intensity = Quot(limit - distance, limit),
                       !.moves = Toggled(p.moves)]
        ELSE [p EXCEPT !.cursor = cursor, !.class = FALSE, !.intensity = Unset,
                       !.moves = Toggled(p.moves)]

polishRest == <<app, lastScrollTo, opacity, cursorVars, webglVars, appVars, scrollVars,
                histVars>>

\* the document's mousemove listener of setupProximityDetection
CursorProximity(cursor) ==
    /\ polish' = HandleCursorProximity(polish, cursor)
    /\ UNCHANGED polishRest

\* the element's mouseenter listener: the class and addProximityGlow
ElementEnter ==
    /\ polish' = [polish EXCEPT !.class = TRUE, !.scale = 102]
    /\ UNCHANGED polishRest

\* the element's mouseleave listener: the class and removeProximityGlow
ElementLeave ==
    /\ polish' = [polish EXCEPT !.class = FALSE, !.scale = 100]
    /\ UNCHANGED polishRest

\* setProximityThreshold(threshold)
SetProximityThreshold(threshold) ==
    /\ polish' = [polish EXCEPT !.proximityThreshold = threshold]
    /\ UNCHANGED polishRest

(***************************************************************************)
(* EmberCursor: the opacity of the particle elements                       *)
(*                                                                         *)
(* style.opacity is kept in hundredths ('0.96' is 96, '1' is 100, '0' is   *)
(* 0).  p.life * p.life needs more than two limbs: a wide number is a      *)
(* function from digit positions to digits of 14 bits, least significant   *)
(* first, in units of 2^-116.                                              *)
(***************************************************************************)
DigitBits == 14
DigitBase == 2^DigitBits
WidePositions == 0..10
WideZero == [i \in WidePositions |-> 0]

\* the opacity of an element whose style no method has written
Unstyled == 0 - 1
\* p.element.style.opacity = '1' of spawnParticle
SpawnOpacity == 100
\* p.element.style.opacity = '0' of updateParticles
DeadOpacity == 0

\* digits in 0..DigitBase-1 again, carries moved up from position i on
RECURSIVE CarryFrom(_, _, _)
CarryFrom(w, i, c) ==
    IF i \notin WidePositions THEN w
    ELSE LET v == w[i] + c
         IN  CarryFrom([w EXCEPT ![i] = v % DigitBase], i + 1, v \div DigitBase)
Carried(w) == CarryFrom(w, 0, 0)

\* the magnitude hi * 2^29 + lo of a life, as a wide number (in its own units
\* of 2^-58): 2^29 is 2 * DigitBase^2
Wide(m) ==
    Carried([WideZero EXCEPT
                ![0] = m.lo % DigitBase,
                ![1] = (m.lo \div DigitBase) % DigitBase,
                ![2] = m.lo \div (DigitBase * DigitBase) + 2 * (m.hi % DigitBase),
                ![3] = 2 * ((m.hi \div DigitBase) % DigitBase),
                ![4] = 2 * (m.hi \div (DigitBase * DigitBase))])

\* the sum of the products a[i] * a[k - i]
RECURSIVE Convolved(_, _, _)
Convolved(a, k, i) ==
    IF i > k THEN 0
    ELSE (IF i <= 4 /\ k - i <= 4 THEN a[i] * a[k - i] ELSE 0) + Convolved(a, k, i + 1)

\* the exact square of a magnitude, in units of 2^-116
ExactSquare(m) == LET a == Wide(m) IN Carried([k \in WidePositions |-> Convolved(a, k, 0)])

\* the number of significant bits of a wide number
WideTop(w) == IF w = WideZero THEN 0 ELSE CHOOSE i \in WidePositions :
                                              w[i] # 0 /\ \A j \in WidePositions : j > i => w[j] = 0
WideBitLen(w) == IF w = WideZero THEN 0 ELSE DigitBits * WideTop(w) + BitLen(w[WideTop(w)])

\* bit b of a wide number, and whether any bit below b is set
WideBit(w, b) == (w[b \div DigitBits] \div 2^(b % DigitBits)) % 2
WideBelow(w, b) ==
    \/ w[b \div DigitBits] % 2^(b % DigitBits) # 0
    \/ \E j \in WidePositions : j < b \div DigitBits /\ w[j] # 0

\* a wide number rounded to 53 significant bits, ties to even: what the
\* multiplication of two doubles returns
WideRound(w) ==
    LET q == WideBitLen(w) - MantissaBits
    IN  IF q <= 0 THEN w
        ELSE LET k    == q \div DigitBits
                 g    == 2^(q % DigitBits)
                 up   == WideBit(w, q - 1) = 1
                            /\ (WideBelow(w, q - 1) \/ WideBit(w, q) = 1)
                 kept == [i \in WidePositions |->
                             IF i < k THEN 0
                             ELSE IF i = k THEN (w[i] \div g) * g + (IF up THEN g ELSE 0)
                             ELSE w[i]]
             IN  Carried(kept)

\* p.life * p.life for a life above zero
FSquare(l) == WideRound(ExactSquare(l))

\* (digits after the second decimal dropped instead of rounded)
ToFixed2Truncated(w) ==
    LET scaled == Carried([i \in WidePositions |-> 100 * w[i]])
    IN  scaled[8] \div 16 + 1024 * scaled[9]

\* x.toFixed(2) for 0 <= x <= 1 in units of 2^-116, in hundredths: the integer
\* n with n / 100 nearest to x, the larger one of two.  2^116 is 16 *
\* DigitBase^8, and a half of it is 8 * DigitBase^8
ToFixed2(w) ==
    LET scaled == Carried([i \in WidePositions |->
                              100 * w[i] + (IF i = 8 THEN 8 ELSE 0)])
    IN  scaled[8] \div 16 + 1024 * scaled[9]

\* what updateParticles writes to the opacity of a slot's element, given the
\* slot and the opacity before the call
UpdateOpacity(p, o) ==
    IF ~p.active THEN o
    ELSE LET l == FSub(p.life, Decay)
         IN  IF FLeq(l, FZero) THEN DeadOpacity ELSE ToFixed2(FSquare(l))

(***************************************************************************)
(* The state after the page has constructed its systems                    *)
(***************************************************************************)
Init ==
    \* new EmberCursor()
    /\ cursorEl \in BOOLEAN
    /\ cursorClass = FALSE
    /\ cursorTransform = [x |-> -100, y |-> -100, scale |-> 100]
    /\ mouse = [x |-> 0, y |-> 0]
    /\ lastMouse = [x |-> 0, y |-> 0]
    /\ isActive = FALSE
    /\ pool = InitPool
    /\ poolIndex = 0
    /\ rafId = 1
    /\ cursorRaf = 1
    /\ cursorScale = 100
    /\ bodyCursor = ""
    /\ cListeners = CursorEvents
    /\ maxTrailLength = 0
    /\ cDestroyed = FALSE
    \* new WebGLAtmosphere(): init() runs only with WebGL support, and gets
    \* past its first lines only with the canvas in the document
    /\ isSupported \in BOOLEAN
    /\ canvasPresent \in BOOLEAN
    /\ wInitialized = (isSupported /\ canvasPresent)
    /\ renderer = (IF isSupported /\ canvasPresent THEN "live" ELSE "null")
    /\ particles = (IF isSupported /\ canvasPresent THEN "live" ELSE "null")
    /\ wListeners = (IF isSupported /\ canvasPresent THEN WebGLEvents ELSE {})
    /\ wRaf = (isSupported /\ canvasPresent)
    /\ wTime = 0
    /\ frameCount = 0
    /\ lastFrameTime = 0
    /\ isRunning = "undefined"
    /\ wMouse = [x |-> 0, y |-> 0]
    /\ particleCount \in ParticleCounts
    /\ lastDelta = 0
    /\ renderCalls = 0
    /\ usedDisposed = FALSE
    /\ wDestroyed = FALSE
    /\ clock = 0
    /\ docHidden = FALSE
    \* new SoulstickApp(): about to run init(), or with init() done and the
    \* 3 s timer of setupPerformanceMonitoring() armed
    /\ app \in {NewApp, RunningApp}
    /\ monitor = (IF app = NewApp THEN "unset" ELSE "waiting")
    /\ perfModeEnabled = FALSE
    /\ perfClass = FALSE
    \* new ScrollSync(): init() runs up to its await; with both libraries loaded
    \* the promise is resolved at once and init goes on before any other callback
    /\ lenisLoaded \in BOOLEAN
    /\ gsapLoaded \in BOOLEAN
    /\ depTimer = (IF DependenciesReady THEN 0 ELSE 1)
    /\ lenis = DependenciesReady
    /\ lenisOn = DependenciesReady
    /\ sInitialized = DependenciesReady
    /\ nativeListeners = (IF DependenciesReady THEN 1 ELSE 0)
    /\ scrollProgress = Quot(0, 1)
    /\ scrollDirection = "down"
    /\ lastScrollY = 0
    /\ isScrolling = FALSE
    /\ scrollTimeout = 0
    /\ timers = {}
    /\ sNow = 0
    /\ scrollCallbacks = <<>>
    /\ cssProgress = Unset
    /\ uIntensity = Unset
    /\ sDestroyed = FALSE
    /\ lastEvent = [kind |-> "none", y |-> 0, direction |-> 0, progress |-> Unset,
                    seq |-> 0]
    /\ lastEventAt = 0 - ScrollEndDelay
    /\ bursts = 0
    /\ burstLen = 0
    /\ scrollEnds = 0
    /\ subscribed = <<>>
    /\ offered = <<>>
    /\ invoked = <<>>
    /\ registryCalls = 0
    \* new TripleAPolish(), and the particle elements
    \* initPool() creates, whose opacity no code has written yet
    /\ polish = NewPolish
    /\ opacity = [i \in 1..maxParticles |-> Unstyled]
    /\ lastScrollTo = NoScrollTo
    /\ spawnCalls = 0
    /\ updateCalls = 0
    /\ overwrites = 0
    /\ extraCalls = 0
    /\ ticks = 0
    /\ failStreak = [cursor |-> 0, webgl |-> 0]

(***************************************************************************)
(* The cursor effect in the running page: input events, animation frames,  *)
(* the performance monitor and destroy()                                   *)
(***************************************************************************)
TouchLists == {<<>>} \cup {<<p>> : p \in Positions}

\* the environment of the cursor effect
InitCursor ==
    Init /\ app = RunningApp /\ canvasPresent /\ particleCount = 100 /\ DependenciesReady

CursorTick == CursorFrame("none") /\ UNCHANGED <<ticks, failStreak>>

NextCursor ==
    \/ \E pos \in Positions : MouseMove(pos)
    \/ \E kind \in {"touchstart", "touchmove"}, t \in TouchLists : Touch(kind, t)
    \/ MouseEnter
    \/ MouseLeave
    \/ TouchEnd
    \/ MouseDown
    \/ MouseUp
    \/ CursorTick
    \/ CursorDestroy
    \/ MonitorStart
    \/ \E low \in BOOLEAN : MeasurePerformance(low)

SpecCursor == InitCursor /\ [][NextCursor]_vars

\* the trail alone: the pointer moves in and out of the page while frames run
NextTrail ==
    \/ \E pos \in Positions : MouseMove(pos)
    \/ MouseEnter
    \/ MouseLeave
    \/ CursorTick

SpecTrail == InitCursor /\ [][NextTrail]_vars

(***************************************************************************)
(* The particle pool driven through its methods: spawnParticle and         *)
(* updateParticles called directly, and the pointer moved                  *)
(***************************************************************************)
MaxExtraCalls == 1

poolRest == <<cursorEl, cursorClass, cursorTransform, lastMouse, isActive, rafId,
              cursorRaf, cursorScale, bodyCursor, cListeners, maxTrailLength,
              cDestroyed>>

SpawnParticleCall ==
    /\ spawnCalls < MaxSpawnCalls
    /\ pool' = SpawnParticle(pool, poolIndex, mouse)
    /\ poolIndex' = NextPoolIndex(poolIndex)
    /\ spawnCalls' = spawnCalls + 1
    /\ overwrites' = overwrites + (IF pool[poolIndex + 1].active THEN 1 ELSE 0)
    /\ UNCHANGED <<mouse, poolRest, webglVars, appVars, siteVars, scrollVars, updateCalls, extraCalls, ticks,
                   failStreak>>

UpdateParticlesCall ==
    /\ extraCalls < MaxExtraCalls
    /\ pool' = UpdateParticles(pool)
    /\ updateCalls' = updateCalls + 1
    /\ extraCalls' = extraCalls + 1
    /\ UNCHANGED <<mouse, poolIndex, poolRest, webglVars, appVars, siteVars, scrollVars, spawnCalls,
                   overwrites, ticks, failStreak>>

PoolMouseMove(pos) ==
    /\ extraCalls < MaxExtraCalls
    /\ HandleMouseMove(pos)
    /\ extraCalls' = extraCalls + 1
    /\ UNCHANGED <<cursorRest, webglVars, appVars, siteVars, scrollVars, spawnCalls, updateCalls, overwrites,
                   ticks, failStreak>>

NextPool ==
    \/ SpawnParticleCall
    \/ UpdateParticlesCall
    \/ \E pos \in Positions : PoolMouseMove(pos)

SpecPool == InitCursor /\ [][NextPool]_vars

(***************************************************************************)
(* The atmosphere in the running page: animation frames, visibility        *)
(* changes, pointer movement and destroy()                                 *)
(***************************************************************************)
InitWebGL ==
    Init /\ app = RunningApp /\ cursorEl /\ particleCount = 100 /\ DependenciesReady

WebGLTick(dt) == WebGLFrame(dt, FALSE) /\ UNCHANGED histVars

NextWebGL ==
    \/ \E dt \in FrameSteps : WebGLTick(dt)
    \/ VisibilityChange
    \/ \E pos \in Positions : WebGLMouseMove(pos)
    \/ WebGLDestroy

SpecWebGL == InitWebGL /\ [][NextWebGL]_vars

(***************************************************************************)
(* Both frame loops with ticks that throw                                  *)
(***************************************************************************)
MaxTicks == 4

InitFaulty ==
    Init /\ app = RunningApp /\ cursorEl /\ isSupported /\ canvasPresent
         /\ particleCount = 100 /\ DependenciesReady

FaultyCursorTick(throwAt) ==
    /\ ticks < MaxTicks
    /\ CursorFrame(throwAt)
    /\ ticks' = ticks + 1
    /\ failStreak' = [failStreak EXCEPT
                        !.cursor = IF isActive /\ throwAt # "none" THEN @ + 1 ELSE 0]

FaultyWebGLTick(dt, throws) ==
    /\ ticks < MaxTicks
    /\ WebGLFrame(dt, throws)
    /\ ticks' = ticks + 1
    /\ failStreak' = [failStreak EXCEPT
                        !.webgl = IF throws /\ RenderDue(clock + dt) /\ RenderRuns
                                  THEN @ + 1 ELSE 0]
    /\ UNCHANGED <<spawnCalls, updateCalls, overwrites, extraCalls>>

NextFaulty ==
    \/ \E t \in ThrowPoints \cup {"none"} : FaultyCursorTick(t)
    \/ \E dt \in FrameSteps, throws \in BOOLEAN : FaultyWebGLTick(dt, throws)
    \/ \E pos \in Positions : MouseMove(pos)

SpecFaulty == InitFaulty /\ [][NextFaulty]_vars

(***************************************************************************)
(* The scroll publisher in the running page: the libraries load (or do     *)
(* not), init polls for them, scroll events arrive and time passes         *)
(***************************************************************************)
InitScroll ==
    Init /\ app = RunningApp /\ cursorEl /\ isSupported /\ canvasPresent
         /\ particleCount = 100

NextScroll ==
    \/ LenisLoads
    \/ GsapLoads
    \/ DependencyPoll
    \/ SetupFallback
    \/ \E e \in LenisEvents : LenisScroll(e)
    \/ \E y \in PageOffsets, h \in ScrollHeights : NativeScroll(y, h)
    \/ \E dt \in TimeSteps : AdvanceTime(dt)
    \/ ScrollEndTimer
    \/ ScrollDestroy

SpecScroll == InitScroll /\ [][NextScroll]_vars

\* the timer of checkDependencies, once armed, runs
SpecScrollFair == SpecScroll /\ WF_vars(DependencyPoll)

(***************************************************************************)
(* The subscribers of a publisher that runs on Lenis                       *)
(***************************************************************************)
InitSubscribers == InitScroll /\ DependenciesReady

SubscriberEvents == {[progress |-> Quot(1, 2), direction |-> 1]}

NextSubscribers ==
    \/ \E id \in SubscriberIds, does \in Behaviours : AddScrollCallback(id, does)
    \/ \E id \in SubscriberIds : RemoveScrollCallback(id)
    \/ \E e \in SubscriberEvents : LenisScroll(e)
    \/ ScrollDestroy

SpecSubscribers == InitSubscribers /\ [][NextSubscribers]_vars

(***************************************************************************)
(* Callers of scrollTo, before and after the libraries arrive              *)
(***************************************************************************)
NextScrollTo ==
    \/ LenisLoads
    \/ GsapLoads
    \/ DependencyPoll
    \/ SetupFallback
    \/ \E target \in ScrollTargets : ScrollTo(target)
    \/ ScrollToTop
    \/ ScrollDestroy

SpecScrollTo == InitScroll /\ [][NextScrollTo]_vars

(***************************************************************************)
(* The start of the page: init() with constructors that throw or not       *)
(***************************************************************************)
InitBoot ==
    Init /\ app = NewApp /\ cursorEl /\ isSupported /\ canvasPresent /\ particleCount = 150
         /\ DependenciesReady

NextBoot ==
    \/ \E threw \in Throws, light \in BOOLEAN, overlay \in BOOLEAN :
           AppInitBegins(threw, light, overlay)
    \/ \E mobile \in BOOLEAN : AppSystemsSettled(mobile)
    \/ AppLoadingFaded
    \/ AppInitEnds

SpecBoot == InitBoot /\ [][NextBoot]_vars

\* init() is called by the constructor, its continuations are promise
\* reactions and one timer: each runs once it can
SpecBootFair == SpecBoot /\ WF_vars(NextBoot)

(***************************************************************************)
(* The proximity effect under pointer events and calls of its setter       *)
(***************************************************************************)
NextPolish ==
    \/ \E cursor \in CursorPoints : CursorProximity(cursor)
    \/ ElementEnter
    \/ ElementLeave
    \/ \E threshold \in Thresholds : SetProximityThreshold(threshold)

InitPolish == InitScroll /\ DependenciesReady

SpecPolish == InitPolish /\ [][NextPolish]_vars

(***************************************************************************)
(* The styling of the particle elements: spawnParticle and updateParticles *)
(* with the opacity they write, for the first particles of the pool        *)
(***************************************************************************)
MaxStyledSpawns == 2

styleRest == <<mouse, poolRest, app, lastScrollTo, polish, webglVars, appVars, scrollVars,
               updateCalls, overwrites, extraCalls, ticks, failStreak>>

\* spawnParticle()
SpawnStyled ==
    /\ spawnCalls < MaxStyledSpawns
    /\ pool' = SpawnParticle(pool, poolIndex, mouse)
    /\ opacity' = [opacity EXCEPT ![poolIndex + 1] = SpawnOpacity]
    /\ poolIndex' = NextPoolIndex(poolIndex)
    /\ spawnCalls' = spawnCalls + 1
    /\ UNCHANGED styleRest

\* updateParticles()
UpdateStyled ==
    /\ pool' = UpdateParticles(pool)
    /\ opacity' = [i \in 1..maxParticles |-> UpdateOpacity(pool[i], opacity[i])]
    /\ UNCHANGED <<poolIndex, spawnCalls, styleRest>>

NextStyle ==
    \/ SpawnStyled
    \/ UpdateStyled

InitStyle == InitCursor /\ cursorEl /\ isSupported

SpecStyle == InitStyle /\ [][NextStyle]_vars

(***************************************************************************)
(* Properties                                                              *)
(***************************************************************************)
Slots == 1..maxParticles
AllActive(pl) == \A i \in Slots : pl[i].active

\* slots whose life went up in the step: the ones a spawn has overwritten
Respawned == {i \in Slots : FLess(pool[i].life, pool'[i].life)}

\* C1: spawnParticle is round-robin.  The k-th spawn since initialization
\* overwrites slot (k-1) mod maxParticles with active = true, life = 1.0 and the
\* current mouse position, touches no other slot and leaves poolIndex =
\* k mod maxParticles; with no updateParticles call in between, the first
\* maxParticles spawns overwrite no active slot and spawn maxParticles + 1
\* overwrites exactly one (slot 0), leaving every slot active.
C1_RoundRobin ==
    [][spawnCalls' = spawnCalls + 1 =>
         LET k == spawnCalls'
             slot == ((k - 1) % maxParticles) + 1
         IN  /\ poolIndex = (k - 1) % maxParticles
             /\ poolIndex' = k % maxParticles
             /\ pool'[slot].active
             /\ pool'[slot].life = FOne
             /\ pool'[slot].at = <<mouse.x, mouse.y>>
             /\ \A i \in Slots \ {slot} : pool'[i] = pool[i]
             /\ (updateCalls = 0 /\ k <= maxParticles) => overwrites' = 0
             /\ (updateCalls = 0 /\ k = maxParticles + 1) =>
                    /\ overwrites' = 1
                    /\ slot = 1
                    /\ pool[slot].active
                    /\ AllActive(pool')]_vars

C1_Witness ==
    /\ spawnCalls = maxParticles + 1
    /\ updateCalls = 0
    /\ overwrites = 1
    /\ poolIndex = 1
    /\ AllActive(pool)

\* C2: the pool holds exactly maxParticles slots in every reachable state and
\* poolIndex stays in 0..maxParticles-1, whatever spawns, updates, input
\* events and enablePerformanceMode do.
C2_PoolSize ==
    /\ Len(pool) = maxParticles
    /\ DOMAIN pool = Slots
    /\ poolIndex \in 0..(maxParticles - 1)

C2_Witness ==
    /\ spawnCalls = maxParticles
    /\ poolIndex = 0
    /\ maxTrailLength = 5
    /\ Len(pool) = maxParticles

\* C3 (as claimed): between two spawns of a slot its life never increases
\* across a step, and a slot that is marked inactive has life exactly 0.
C3_LifeEndsAtZero ==
    [][pool' # pool =>
         \A i \in Slots :
            /\ (pool[i].active /\ i \notin Respawned) => FLeq(pool'[i].life, pool[i].life)
            /\ (pool[i].active /\ ~pool'[i].active) => pool'[i].life = FZero]_vars

\* a frame callback of the cursor effect has run in the step
CursorFrameRan == cursorRaf # 0 /\ cursorRaf' # 0 /\ cursorRaf' # cursorRaf

\* C4: the number of active particles never exceeds maxParticles; a step that
\* is no frame callback (an input event, whichever) spawns nothing: it leaves
\* every slot's life and active flag and poolIndex as they are; and a frame
\* callback spawns at most one particle.
C4_SpawnCeiling ==
    [][(pool' # pool \/ poolIndex' # poolIndex) =>
         /\ NumActive(pool') <= maxParticles
         /\ Cardinality(Respawned) <= 1
         /\ (poolIndex' - poolIndex) % maxParticles \in {0, 1}
         /\ ~CursorFrameRan =>
               /\ poolIndex' = poolIndex
               /\ \A i \in Slots : /\ pool'[i].active = pool[i].active
                                   /\ pool'[i].life = pool[i].life
                                   /\ pool'[i].at = pool[i].at]_vars

C4_Witness ==
    /\ isActive
    /\ NumActive(pool) = 47
    /\ spawnCalls > maxParticles
    /\ mouse # lastMouse

\* C5 (as claimed): every frame callback decays the life of every active
\* particle.
C5_DecayEveryFrame ==
    [][CursorFrameRan =>
         \A i \in Slots : pool[i].active => FLess(pool'[i].life, pool[i].life)]_vars

\* C6: in a frame callback that spawns, updateParticles runs after
\* spawnParticle: the fresh particle ends the tick advanced exactly once (life
\* 1.0 - decay, displaced from the spawn position), and every particle that
\* was active has been advanced once as well.
C6_UpdateAfterSpawn ==
    [][(CursorFrameRan /\ poolIndex' # poolIndex) =>
         /\ pool'[poolIndex + 1].active
         /\ pool'[poolIndex + 1].life = FSub(FOne, Decay)
         /\ pool'[poolIndex + 1].at = Adrift
         /\ \A i \in Slots \ {poolIndex + 1} :
                pool[i].active => pool'[i].life = FSub(pool[i].life, Decay)]_vars

C6_Witness ==
    /\ spawnCalls >= 2
    /\ poolIndex > 0
    /\ pool[poolIndex].active
    /\ pool[poolIndex].life = FSub(FOne, Decay)
    /\ \E i \in Slots : pool[i].active /\ pool[i].life = FSub(FSub(FOne, Decay), Decay)

\* C7 (as claimed): while the page stays hidden no frame renders: frameCount
\* and the number of render calls stay constant.
C7_PausedWhileHidden ==
    [][(docHidden /\ docHidden') =>
         (frameCount' = frameCount /\ renderCalls' = renderCalls /\ wTime' = wTime)]_vars

\* C8 (as claimed): after destroy() the render loop renders no more
\* (frameCount constant, the disposed renderer never used) and no mousemove
\* reaches the instance.
C8_DestroyStops ==
    [][wDestroyed =>
         /\ frameCount' = frameCount
         /\ renderCalls' = renderCalls
         /\ ~usedDisposed'
         /\ wMouse' = wMouse]_vars

\* C9 (as claimed): after destroy() no frame callback is pending and no step
\* changes isActive, the pool or document.body.style.cursor.
C9_DestroyTerminal ==
    [][cDestroyed =>
         /\ cursorRaf' = 0
         /\ UNCHANGED <<isActive, pool, poolIndex, bodyCursor>>]_vars

\* C10: a throwing tick does not stop a frame loop: after any number of
\* consecutive failing ticks of either loop, the loop's next frame callback is
\* pending.
C10_ThrowKeepsLoop ==
    /\ failStreak.cursor > 0 => cursorRaf # 0
    /\ failStreak.webgl > 0 => wRaf

C10_Witness ==
    /\ failStreak.cursor >= 2
    /\ failStreak.webgl >= 2
    /\ cursorRaf # 0
    /\ wRaf

\* C11 (as claimed): the time step of a tick is measured: the deltaTime that
\* render() passes to updateParticles is the time elapsed between this tick's
\* timestamp and the previous rendered tick's.
C11_MeasuredTimeStep ==
    [][renderCalls' = renderCalls + 1 => lastDelta' = clock' - lastFrameTime]_vars

\* a scroll event has been handled in the step
ScrollEventHandled == lastEvent'.seq # lastEvent.seq

InUnit(p) == p.kind = "finite" /\ 0 <= p.n /\ p.n <= p.d

\* C12 (as claimed): after every scroll event, in either mode, the scroll
\* progress is a number in [0,1].
C12_ProgressClamped == InUnit(scrollProgress)

\* C13: the direction follows the sign of the offset delta.  A native event
\* handled without Lenis leaves 'down' when its offset is greater than the
\* previous event's, 'up' when it is smaller, and lastScrollY equal to its
\* offset; a Lenis event leaves 'down' exactly when its direction is positive.
C13_Direction ==
    /\ [](lastEvent.kind = "native" => lastScrollY = lastEvent.y)
    /\ [][ScrollEventHandled =>
             /\ lastEvent'.kind = "native" =>
                   /\ lastEvent'.y > lastScrollY => scrollDirection' = "down"
                   /\ lastEvent'.y < lastScrollY => scrollDirection' = "up"
                   /\ lastScrollY' = lastEvent'.y
             /\ lastEvent'.kind = "lenis" =>
                   /\ (scrollDirection' = "down") <=> (lastEvent'.direction > 0)
                   /\ lastScrollY' = lastScrollY]_vars

C13_Witness ==
    /\ ~lenis
    /\ lastEvent.kind = "native"
    /\ lastEvent.y = 1
    /\ lastScrollY = 1
    /\ scrollDirection = "up"
    /\ scrollProgress = Quot(1, 2)

\* C14: debounce.  While isScrolling holds, the timer of the last event of the
\* burst is pending; isScrolling falls only in a step taken 150 ms or more
\* after the last event, and that step dispatches exactly one scrollEnd;
\* scrollEnd is dispatched in no other step; so every burst that has ended has
\* produced exactly one scrollEnd.
C14_Debounce ==
    /\ [](isScrolling => \E t \in timers : t.due = lastEventAt + ScrollEndDelay)
    /\ [](scrollEnds = bursts - (IF isScrolling THEN 1 ELSE 0))
    /\ [][(isScrolling /\ ~isScrolling') =>
             /\ sNow - lastEventAt >= ScrollEndDelay
             /\ scrollEnds' = scrollEnds + 1]_vars
    /\ [][scrollEnds' # scrollEnds => (isScrolling /\ ~isScrolling')]_vars

C14_Witness ==
    /\ bursts = 2
    /\ burstLen >= 2
    /\ scrollEnds = 2
    /\ ~isScrolling
    /\ sNow = lastEventAt + ScrollEndDelay

\* C15: at most one scroll-end timer is pending, in every reachable state.
C15_OneTimer == Cardinality(timers) <= 1

C15_Witness ==
    /\ Cardinality(timers) = 1
    /\ burstLen >= 2
    /\ scrollEnds >= 1
    /\ \A t \in timers : t.id = scrollTimeout /\ t.due = lastEventAt + ScrollEndDelay

\* C16: a scroll update calls the registered callbacks in the order in which
\* their ids were subscribed, each at most once; every callback still
\* registered when the update ends has been called; and when no callback
\* unsubscribes another during the update, each is called exactly once.
C16_SubscriptionOrder ==
    [][ScrollEventHandled =>
         /\ offered' = subscribed
         /\ invoked' = Keep(subscribed, Range(invoked'))
         /\ Ids(scrollCallbacks') \subseteq Range(invoked')
         /\ scrollCallbacks' = scrollCallbacks => invoked' = subscribed]_vars

C16_Witness ==
    /\ lastEvent.kind = "lenis"
    /\ invoked = <<3, 1, 2>>
    /\ subscribed = invoked
    /\ IdsInOrder(scrollCallbacks) = invoked

Throwers(reg) == {reg[i].id : i \in {k \in DOMAIN reg : reg[k].does.kind = "throw"}}

\* C17: a throwing subscriber is isolated.  In a scroll update with callbacks
\* that throw, every callback still registered when the update ends has been
\* called (all of them when none unsubscribes another), and progress,
\* direction and isScrolling are what the event says.
C17_ThrowIsolated ==
    [][(ScrollEventHandled /\ Throwers(scrollCallbacks) # {}) =>
         /\ Ids(scrollCallbacks') \subseteq Range(invoked')
         /\ scrollCallbacks' = scrollCallbacks => Range(invoked') = Ids(scrollCallbacks)
         /\ scrollProgress' = lastEvent'.progress
         /\ scrollDirection' = LenisDirection(lastEvent')
         /\ isScrolling'
         /\ \E t \in timers' : t.id = scrollTimeout']_vars

C17_Witness ==
    /\ Len(scrollCallbacks) = 3
    /\ scrollCallbacks[1].does.kind = "throw"
    /\ scrollCallbacks[2].does.kind = "throw"
    /\ invoked = IdsInOrder(scrollCallbacks)
    /\ isScrolling
    /\ scrollProgress = Quot(1, 2)

\* the callback registered under a unsubscribes b when called
Unsubscribes(reg, a, b) ==
    \E k \in DOMAIN reg : reg[k].id = a /\ reg[k].does = [kind |-> "remove", target |-> b]

\* C18: unsubscribing is immediate.  An id that is unsubscribed is in the map
\* no more; a scroll update calls only callbacks that were registered when it
\* began, and never one that a callback called before it has unsubscribed;
\* after destroy() no update takes place and no callback is called.
C18_UnsubscribeImmediate ==
    /\ [][\A id \in Range(subscribed) \ Range(subscribed') :
              id \notin Ids(scrollCallbacks')]_vars
    /\ [][ScrollEventHandled =>
             /\ Range(invoked') \subseteq Ids(scrollCallbacks)
             /\ \A i, j \in DOMAIN invoked' :
                    i < j => ~Unsubscribes(scrollCallbacks, invoked'[i], invoked'[j])]_vars
    /\ [][sDestroyed => (~ScrollEventHandled /\ invoked' = invoked)]_vars
    /\ [](sDestroyed => scrollCallbacks = <<>> \/ ~lenisOn)

C18_Witness ==
    /\ Len(offered) = 3
    /\ invoked = <<offered[1], offered[3]>>
    /\ IdsInOrder(scrollCallbacks) = invoked
    /\ Unsubscribes(scrollCallbacks, offered[1], offered[2])

\* C19 (as claimed): a native scroll event handled without Lenis does what a
\* Lenis scroll event does: it sets isScrolling with the scroll-end timer
\* armed, and calls every registered callback.
C19_FallbackSameContract ==
    [][(ScrollEventHandled /\ lastEvent'.kind = "native") =>
         /\ isScrolling'
         /\ \E t \in timers' : t.due = sNow + ScrollEndDelay
         /\ invoked' = IdsInOrder(scrollCallbacks)]_vars

\* C20 (as claimed): init ends its wait for the libraries: eventually no
\* checkDependencies timer is pending, whether the libraries load or not.
C20_InitTerminates == <>(depTimer = 0)

\* the last call of scrollTo named something to scroll to: an element, a
\* selector that matches one, or a number
NamesTarget == lastScrollTo.target.kind \in {"element", "number"}
                 \/ (lastScrollTo.target.kind = "selector" /\ lastScrollTo.target.matches)

\* C21 (as claimed): without a Lenis instance scrollTo issues a scroll request
\* for a selector, for an element and for a number alike, and never throws.
C21_FallbackScrollTo ==
    lastScrollTo.target # NullElement /\ ~lenis
        => /\ ~lastScrollTo.threw
           /\ NamesTarget => lastScrollTo.via # "none"

\* C22: whichever of the three constructors throw, initializeSystems attempts
\* all three, is never rejected, leaves systems.webgl / cursor / scroll false
\* exactly for the ones that threw, and init() goes on to set isInitialized.
C22_InitIsolated ==
    /\ [](app.phase # "constructed"
            => /\ app.attempted = SystemOrder
               /\ app.settled = "fulfilled"
               /\ \A s \in Systems : app.systems[s] = ~app.threw[s])
    /\ <>(app.isInitialized)

\* init() has finished although the WebGLAtmosphere constructor threw, and the
\* cursor was constructed.
C22_Witness ==
    /\ app.isInitialized
    /\ app.threw["webgl"] /\ ~app.systems["webgl"]
    /\ ~app.threw["cursor"] /\ app.systems["cursor"]

\* handleCursorProximity has run in the step
ProximityHandled == polish'.moves # polish.moves

\* two quotients stand for the same number
SameNumber(a, b) == a.kind = "finite" /\ b.kind = "finite" /\ a.n * b.d = b.n * a.d

\* C27 (as claimed): once setProximityThreshold(t) has been called, a mousemove
\* at distance d from the centre of the element gives it the effect with
\* intensity 1 - d/t exactly when d < t, and removes the effect when d >= t.
C27_ThresholdApplies ==
    [][ProximityHandled /\ polish.proximityThreshold # 0
         => LET d == Distance(polish'.cursor, ElementCenter(ElementRect))
                t == polish.proximityThreshold
            IN  IF d < t
                THEN polish'.class /\ SameNumber(polish'.intensity, Quot(t - d, t))
                ELSE ~polish'.class /\ polish'.intensity = Unset]_vars

\* n hundredths is the hundredth nearest to the square of the life l:
\* (2n - 1) / 200 <= l * l < (2n + 1) / 200, decided on the exact square
NearestHundredth(l, n) ==
    LET square == ExactSquare(l)
        twice == Carried([i \in WidePositions |-> 200 * square[i]])
    IN  /\ twice[9] = 0 /\ twice[10] = 0
        /\ (2 * n - 1) * 16 <= twice[8]
        /\ twice[8] < (2 * n + 1) * 16

\* n hundredths is the square of the life l, up to the rounding error of
\* doubles: 100 * l * l and n agree when rounded to a multiple of 2^-32
\* (2^84 units, bit 0 of digit 6)
SquareHundredths(l, n) ==
    LET square == ExactSquare(l)
        scaled == Carried([i \in WidePositions |->
                              100 * square[i] + (IF i = 5 THEN DigitBase \div 2 ELSE 0)])
    IN  [i \in WidePositions |-> IF i < 6 THEN 0 ELSE scaled[i]]
            = [WideZero EXCEPT ![8] = 16 * n]

\* C23 (amended): the opacity of an active particle is the square of its life
\* rounded to two decimals (1 right after the spawn, 0.25 at life 0.5), and
\* the opacity of a particle whose life has run out is 0.
C23_OpacityRounded ==
    \A i \in 1..maxParticles :
        /\ pool[i].active => opacity[i] # Unstyled /\ NearestHundredth(pool[i].life, opacity[i])
        /\ ~pool[i].active /\ opacity[i] # Unstyled => opacity[i] = 0

\* a particle half way through its life, with opacity 0.25, next to a newer one
C23_Witness ==
    \E i, j \in 1..maxParticles :
        /\ pool[i].active /\ opacity[i] = 25
        /\ pool[j].active /\ opacity[j] > 25 /\ opacity[j] < SpawnOpacity

\* C23 (as claimed): the opacity of an active particle is the square of its
\* life.
C23_OpacityIsSquare ==
    \A i \in 1..maxParticles :
        pool[i].active => SquareHundredths(pool[i].life, opacity[i])

\* the render loop has rendered in the step: any of its three records moved
FrameRendered ==
    renderCalls' # renderCalls \/ frameCount' # frameCount \/ lastFrameTime' # lastFrameTime

\* C24: the loop renders only in a frame callback whose timestamp is at least
\* 1000 / targetFPS ms after the timestamp of the previous rendered frame; a
\* rendered frame adds exactly one to frameCount, calls the renderer at most
\* once and stores its timestamp in lastFrameTime, which no other step changes.
C24_FrameRateCeiling ==
    [][FrameRendered =>
         /\ clock' # clock
         /\ (clock' - lastFrameTime) * targetFPS >= 1000
         /\ frameCount' = frameCount + 1
         /\ renderCalls' \in {renderCalls, renderCalls + 1}
         /\ lastFrameTime' = clock']_vars

\* two frames have been rendered and a third came too early to be
C24_Witness ==
    /\ renderCalls >= 2
    /\ frameCount = renderCalls
    /\ clock > lastFrameTime
    /\ (clock - lastFrameTime) * targetFPS < 1000

\* C25 (as claimed): the time step render() passes to updateParticles is one
\* 60 fps frame, 0.016, and the same on every rendered frame.
C25_SteadyTimeStep ==
    [][(renderCalls' = renderCalls + 1 /\ particles # "null") =>
         /\ lastDelta' = 16
         /\ renderCalls >= 1 => lastDelta' = lastDelta]_vars

\* C26 (as claimed): handleScroll runs to its end on every Lenis scroll event:
\* after the callbacks and the sync of the effects it writes the new progress
\* to the custom property --scroll-progress.
C26_ScrollHandlerCompletes ==
    [][(ScrollEventHandled /\ lastEvent'.kind = "lenis") =>
         /\ cssProgress' = lastEvent'.progress
         /\ cssProgress' # Unset]_vars

\* C28: in the animation loop a spawn never takes a slot whose particle is
\* alive, and at most 48 slots are active, whatever events activate and
\* deactivate the cursor between the frames.
C28_NoLiveOverwrite ==
    /\ overwrites = 0
    /\ NumActive(pool) <= 48

\* the pool has wrapped around after a pause of the cursor: the first slots
\* were spawned into again, and the cursor was deactivated and activated on
\* the way
C28_Witness ==
    /\ spawnCalls > maxParticles
    /\ poolIndex > 0
    /\ NumActive(pool) = 47
    /\ isActive
    /\ cursorClass

\* C29 (as claimed): when the monitor finds fewer than 30 frames per second,
\* enablePerformanceMode runs to its end: the class 'performance-mode' is on
\* the body and the flag performanceModeEnabled is set, whatever the
\* WebGLAtmosphere instance holds.
C29_PerformanceModeCompletes ==
    [][(monitor = "running" /\ monitor' = "stopped") =>
         /\ perfClass'
         /\ perfModeEnabled']_vars

\* C30: with a Lenis instance, isScrolling holds exactly while a scroll-end
\* timer is pending.
C30_ScrollingIffTimer == lenis => (isScrolling <=> timers # {})

\* a second burst is under way: a timer has fired before, and the flag is up
\* again with the timer of the last event pending
C30_Witness ==
    /\ lenis
    /\ isScrolling
    /\ scrollEnds >= 1
    /\ \E t \in timers : t.id = scrollTimeout /\ t.due > sNow
====
